---- MODULE Spec2Model ----
(***************************************************************************)
(* Model of ogr.services.abstract.GitProject: the default pull-request     *)
(* comment retrieval (get_pr_comments) and search (search_in_pr) built on  *)
(* the backend primitives _get_all_pr_comments and get_pr_info.            *)
(*                                                                         *)
(* Python lists are mutable objects.  The list that _get_all_pr_comments   *)
(* hands out is either built anew on every call or is a list the backend   *)
(* holds and hands out again; list.reverse(), list.append() and            *)
(* list.insert() change that object in place.  The model keeps the         *)
(* contents of the backend-held list in the variable kept and records for  *)
(* every returned list whether it is that very object.                     *)
(***************************************************************************)
EXTENDS Integers, Sequences, FiniteSets

\* ---- bounds ----
MaxComments == 2   \* longest forge-side comment sequence
MaxListLen == 3    \* cap on the growth of a backend-held list

\* ---- values ----
\* texts are sequences of characters: comment bodies and descriptions
Text == {<<>>, <<"m">>, <<"x">>, <<"x", "m">>}

\* literal patterns handed to re.search
Pattern == {<<>>, <<"m">>, <<"x", "m">>}

\* filter_regex: str = None
None == <<"None">>

\* PRComment(comment, author, created, edited); created orders the comments
PRComment(body, k) == [kind |-> "PRComment", comment |-> body, created |-> k]

\* a plain str spliced into the candidate list (PullRequest.description)
StrItem(body) == [kind |-> "str", comment |-> body, created |-> 0]

CommentLists ==
  UNION {{[i \in 1..k |-> PRComment(b[i], i)] : b \in [1..k -> Text]} : k \in 0..MaxComments}

NoMatch == [found |-> FALSE, string |-> <<>>, start |-> 0, end |-> 0]
NoList == [same |-> FALSE, alias |-> FALSE, val |-> <<>>]

VARIABLES
  comments,      \* forge-side comments of the pull request, native order
  description,   \* forge-side description of the pull request
  commentsImpl,  \* "stub" | "fresh" | "kept": how _get_all_pr_comments is implemented
  infoImpl,      \* "stub" | "ok": how get_pr_info is implemented
  kept,          \* contents of the list object the backend holds
  call,          \* the last call and its arguments
  out            \* what the last call did and returned

vars == <<comments, description, commentsImpl, infoImpl, kept, call, out>>

\* ---- python built-ins ----
\* list.reverse()
Reversed(s) == [i \in 1..Len(s) |-> s[Len(s) + 1 - i]]

\* truth value of filter_regex in "if filter_regex:"
Truthy(p) == p # None /\ p # <<>>

\* re.search of a literal pattern: the leftmost occurrence, unanchored
Occurrences(p, t) == {i \in 1..(Len(t) - Len(p) + 1) : SubSeq(t, i, i + Len(p) - 1) = p}

ReSearch(p, t) ==
  IF Occurrences(p, t) = {} THEN NoMatch
  ELSE LET i == CHOOSE j \in Occurrences(p, t) : \A k \in Occurrences(p, t) : j <= k
       IN [found |-> TRUE, string |-> t, start |-> i - 1, end |-> i - 1 + Len(p)]

Matches(p, item) == ReSearch(p, item.comment).found

\* ---- ogr.utils ----
filter_comments(cs, p) == SelectSeq(cs, LAMBDA c : Matches(p, c))

search_in_comments(cs, p) ==
  IF \E i \in 1..Len(cs) : Matches(p, cs[i])
  THEN LET i == CHOOSE j \in 1..Len(cs) :
                  Matches(p, cs[j]) /\ \A k \in 1..(j - 1) : ~Matches(p, cs[k])
       IN ReSearch(p, cs[i].comment)
  ELSE NoMatch

\* ---- backend primitives ----
get_pr_info ==
  IF infoImpl = "stub"
  THEN [raised |-> "NotImplementedError", description |-> <<>>]
  ELSE [raised |-> "none", description |-> description]

get_all_pr_comments ==
  CASE commentsImpl = "stub" -> [raised |-> "NotImplementedError", alias |-> FALSE, list |-> <<>>]
    [] commentsImpl = "fresh" -> [raised |-> "none", alias |-> FALSE, list |-> comments]
    [] commentsImpl = "kept" -> [raised |-> "none", alias |-> TRUE, list |-> kept]

NoOut ==
  [raised |-> "none", raisedBy |-> "none", nFetch |-> 0, nInfo |-> 0,
   alias |-> FALSE, fetched |-> <<>>, obj |-> <<>>,
   list |-> NoList, cands |-> <<>>, match |-> NoMatch]

\* ---- variants of the operations with a seeded fault ----
\* the reverse flag is read negated
GetPrComments_NegatedReverse(filter_regex, reverse) ==
  LET f == get_all_pr_comments
  IN IF f.raised # "none"
     THEN [NoOut EXCEPT !.raised = f.raised, !.raisedBy = "_get_all_pr_comments", !.nFetch = 1]
     ELSE LET all_comments == IF ~reverse THEN Reversed(f.list) ELSE f.list
          IN [NoOut EXCEPT
                !.nFetch = 1, !.alias = f.alias, !.fetched = f.list, !.obj = all_comments,
                !.list = IF Truthy(filter_regex)
                         THEN [same |-> FALSE, alias |-> FALSE,
                               val |-> filter_comments(all_comments, filter_regex)]
                         ELSE [same |-> TRUE, alias |-> f.alias, val |-> all_comments]]

\* the filter is applied to the list as fetched, not as reversed
GetPrComments_FilterUnreversed(filter_regex, reverse) ==
  LET f == get_all_pr_comments
  IN IF f.raised # "none"
     THEN [NoOut EXCEPT !.raised = f.raised, !.raisedBy = "_get_all_pr_comments", !.nFetch = 1]
     ELSE LET all_comments == IF reverse THEN Reversed(f.list) ELSE f.list
          IN [NoOut EXCEPT
                !.nFetch = 1, !.alias = f.alias, !.fetched = f.list, !.obj = all_comments,
                !.list = IF Truthy(filter_regex)
                         THEN [same |-> FALSE, alias |-> FALSE,
                               val |-> filter_comments(f.list, filter_regex)]
                         ELSE [same |-> TRUE, alias |-> f.alias, val |-> all_comments]]

\* a failed fetch is tried a second time
GetPrComments_Retry(filter_regex, reverse) ==
  LET f == get_all_pr_comments
  IN IF f.raised # "none"
     THEN [NoOut EXCEPT !.raised = f.raised, !.raisedBy = "_get_all_pr_comments", !.nFetch = 2]
     ELSE LET all_comments == IF reverse THEN Reversed(f.list) ELSE f.list
          IN [NoOut EXCEPT
                !.nFetch = 1, !.alias = f.alias, !.fetched = f.list, !.obj = all_comments,
                !.list = IF Truthy(filter_regex)
                         THEN [same |-> FALSE, alias |-> FALSE,
                               val |-> filter_comments(all_comments, filter_regex)]
                         ELSE [same |-> TRUE, alias |-> f.alias, val |-> all_comments]]

\* ---- GitProject.get_pr_comments ----
GetPrComments(filter_regex, reverse) ==
  LET f == get_all_pr_comments
  IN IF f.raised # "none"
     THEN [NoOut EXCEPT !.raised = f.raised, !.raisedBy = "_get_all_pr_comments", !.nFetch = 1]
     ELSE LET all_comments == IF reverse THEN Reversed(f.list) ELSE f.list
          IN [NoOut EXCEPT
                !.nFetch = 1,
                !.alias = f.alias,
                !.fetched = f.list,
                !.obj = all_comments,
                !.list = IF Truthy(filter_regex)
                         THEN [same |-> FALSE, alias |-> FALSE,
                               val |-> filter_comments(all_comments, filter_regex)]
                         ELSE [same |-> TRUE, alias |-> f.alias, val |-> all_comments]]

\* ---- GitProject.search_in_pr ----
\* fault: append and insert exchanged
Candidates_Swapped(all_comments, description_content, reverse) ==
  IF ~reverse
  THEN Append(all_comments, StrItem(description_content))
  ELSE <<StrItem(description_content)>> \o all_comments

Candidates(all_comments, description_content, reverse) ==
  IF reverse
  THEN Append(all_comments, StrItem(description_content))
  ELSE <<StrItem(description_content)>> \o all_comments

\* fault: reverse is not handed on to get_pr_comments
SearchInPr_ReverseNotPassed(filter_regex, reverse, desc) ==
  LET g == GetPrComments(None, FALSE)
  IN IF g.raised # "none" THEN g
     ELSE IF ~desc
          THEN [g EXCEPT !.list = NoList, !.cands = g.list.val,
                         !.match = search_in_comments(g.list.val, filter_regex)]
          ELSE LET i == get_pr_info
               IN IF i.raised # "none"
                  THEN [g EXCEPT !.list = NoList, !.nInfo = 1,
                                 !.raised = i.raised, !.raisedBy = "get_pr_info"]
                  ELSE LET cs == Candidates(g.list.val, i.description, reverse)
                       IN [g EXCEPT !.list = NoList, !.nInfo = 1,
                                    !.obj = IF g.list.same THEN cs ELSE g.obj,
                                    !.cands = cs,
                                    !.match = search_in_comments(cs, filter_regex)]

\* fault: the description flag is ignored, the description is always spliced in
SearchInPr_AlwaysDescription(filter_regex, reverse, desc) ==
  LET g == GetPrComments(None, reverse)
  IN IF g.raised # "none" THEN g
     ELSE LET i == get_pr_info
          IN IF i.raised # "none"
             THEN [g EXCEPT !.list = NoList, !.nInfo = 1,
                            !.raised = i.raised, !.raisedBy = "get_pr_info"]
             ELSE LET cs == Candidates(g.list.val, i.description, reverse)
                  IN [g EXCEPT !.list = NoList, !.nInfo = 1,
                               !.obj = IF g.list.same THEN cs ELSE g.obj,
                               !.cands = cs,
                               !.match = search_in_comments(cs, filter_regex)]

\* fault: the description is fetched before the comments
SearchInPr_InfoFirst(filter_regex, reverse, desc) ==
  LET i == get_pr_info
  IN IF desc /\ i.raised # "none"
     THEN [NoOut EXCEPT !.nInfo = 1, !.raised = i.raised, !.raisedBy = "get_pr_info"]
     ELSE LET g == GetPrComments(None, reverse)
          IN IF g.raised # "none" THEN [g EXCEPT !.nInfo = IF desc THEN 1 ELSE 0]
             ELSE IF ~desc
                  THEN [g EXCEPT !.list = NoList, !.cands = g.list.val,
                                 !.match = search_in_comments(g.list.val, filter_regex)]
                  ELSE LET cs == Candidates(g.list.val, i.description, reverse)
                       IN [g EXCEPT !.list = NoList, !.nInfo = 1,
                                    !.obj = IF g.list.same THEN cs ELSE g.obj,
                                    !.cands = cs,
                                    !.match = search_in_comments(cs, filter_regex)]

SearchInPr(filter_regex, reverse, desc) ==
  LET g == GetPrComments(None, reverse)
  IN IF g.raised # "none" THEN g
     ELSE IF ~desc
          THEN [g EXCEPT !.list = NoList, !.cands = g.list.val,
                         !.match = search_in_comments(g.list.val, filter_regex)]
          ELSE LET i == get_pr_info
               IN IF i.raised # "none"
                  THEN [g EXCEPT !.list = NoList, !.nInfo = 1,
                                 !.raised = i.raised, !.raisedBy = "get_pr_info"]
                  ELSE LET cs == Candidates(g.list.val, i.description, reverse)
                       IN [g EXCEPT !.list = NoList, !.nInfo = 1,
                                    !.obj = IF g.list.same THEN cs ELSE g.obj,
                                    !.cands = cs,
                                    !.match = search_in_comments(cs, filter_regex)]

\* ---- state machine ----
NoCall == [op |-> "none", filter_regex |-> None, reverse |-> FALSE, description |-> FALSE]

Init ==
  /\ comments \in CommentLists
  /\ description \in Text
  /\ commentsImpl \in {"stub", "fresh", "kept"}
  /\ infoImpl \in {"stub", "ok"}
  /\ kept = comments
  /\ call = NoCall
  /\ out = NoOut

\* the backend-held list after a call that left its fetched list as o.obj
KeptAfter(o) == IF o.alias THEN o.obj ELSE kept

Finish(c, o) ==
  /\ Len(KeptAfter(o)) <= MaxListLen
  /\ call' = c
  /\ out' = o
  /\ kept' = KeptAfter(o)
  /\ UNCHANGED <<comments, description, commentsImpl, infoImpl>>

get_pr_comments ==
  \E filter_regex \in Pattern \cup {None}, reverse \in BOOLEAN :
    Finish([op |-> "get_pr_comments", filter_regex |-> filter_regex,
            reverse |-> reverse, description |-> FALSE],
           GetPrComments(filter_regex, reverse))

search_in_pr ==
  \E filter_regex \in Pattern, reverse \in BOOLEAN, desc \in BOOLEAN :
    Finish([op |-> "search_in_pr", filter_regex |-> filter_regex,
            reverse |-> reverse, description |-> desc],
           SearchInPr(filter_regex, reverse, desc))

Next == get_pr_comments \/ search_in_pr

Spec == Init /\ [][Next]_vars

\* ---- vocabulary of the properties ----
Returned(op) == call.op = op /\ out.raised = "none"

\* the text contains the pattern somewhere
Contains(p, t) == \E i \in 1..(Len(t) + 1) : \E j \in (i - 1)..Len(t) : SubSeq(t, i, j) = p

\* the fetched sequence in scan order
Scanned == IF call.reverse THEN Reversed(out.fetched) ELSE out.fetched

\* positions of the fetched sequence whose body contains the pattern
Hits == {i \in 1..Len(out.fetched) : Contains(call.filter_regex, out.fetched[i].comment)}

Least(S) == CHOOSE i \in S : \A j \in S : i <= j
Greatest(S) == CHOOSE i \in S : \A j \in S : i >= j

\* s is t with some elements left out, order kept
RECURSIVE IsSubsequence(_, _)
IsSubsequence(s, t) ==
  IF s = <<>> THEN TRUE
  ELSE IF t = <<>> THEN FALSE
  ELSE IF Head(s) = Head(t) THEN IsSubsequence(Tail(s), Tail(t))
  ELSE IsSubsequence(s, Tail(t))

FetchesSucceed ==
  /\ commentsImpl # "stub"
  /\ (call.op = "search_in_pr" /\ call.description) => infoImpl # "stub"

\* ---- properties ----
\* C1: get_pr_comments with no filter_regex and reverse=False returns exactly
\* the sequence _get_all_pr_comments returned: same elements, same order.
C1_UnfilteredIsFetched ==
  (Returned("get_pr_comments") /\ call.filter_regex = None /\ ~call.reverse)
    => (out.list.val = out.fetched /\ out.list.same)

C1_Witness ==
  /\ Returned("get_pr_comments") /\ call.filter_regex = None /\ ~call.reverse
  /\ Len(out.fetched) >= 2 /\ out.list.val = out.fetched

\* C2: with a pattern p, get_pr_comments returns exactly the elements of the
\* unfiltered (possibly reversed) result whose body matches p: each returned
\* element matches, no matching element is dropped, relative order is kept.
C2_FilterIsExact ==
  (Returned("get_pr_comments") /\ call.filter_regex # None)
    => /\ IsSubsequence(out.list.val, Scanned)
       /\ \A i \in 1..Len(out.list.val) : Contains(call.filter_regex, out.list.val[i].comment)
       /\ Len(out.list.val) = Cardinality(Hits)

C2_Witness ==
  /\ Returned("get_pr_comments") /\ call.filter_regex # None /\ call.reverse
  /\ Len(out.fetched) >= 2 /\ Len(out.list.val) = 1
  /\ Hits = {1}

\* C3: with description=False and a matching comment, search_in_pr returns the
\* match of the earliest matching comment of the native order when
\* reverse=False and of the latest one when reverse=True.
C3_FindFirst ==
  (Returned("search_in_pr") /\ ~call.description /\ Hits # {})
    => out.match = [found |-> TRUE,
                    string |-> out.fetched[IF call.reverse THEN Greatest(Hits)
                                           ELSE Least(Hits)].comment,
                    start |-> out.match.start, end |-> out.match.end]

C3_Witness ==
  /\ Returned("search_in_pr") /\ ~call.description /\ call.reverse
  /\ Cardinality(Hits) >= 2
  /\ out.fetched[Least(Hits)].comment # out.fetched[Greatest(Hits)].comment
  /\ out.match.string = out.fetched[Greatest(Hits)].comment

\* C4: with description=True the description is examined before every comment
\* when reverse=False and after every comment when reverse=True, and the
\* candidate list has exactly (number of comments + 1) entries.
C4_DescriptionPlacement ==
  (Returned("search_in_pr") /\ call.description)
    => /\ Len(out.cands) = Len(out.fetched) + 1
       /\ (out.fetched = <<>>) => out.cands = <<StrItem(description)>>
       /\ (~call.reverse /\ Contains(call.filter_regex, description))
            => (out.match.found /\ out.match.string = description
                /\ out.cands[1] = StrItem(description))
       /\ (call.reverse /\ Hits # {})
            => (out.match.found
                /\ out.match.string = out.fetched[Greatest(Hits)].comment)
       /\ (call.reverse /\ Hits = {} /\ Contains(call.filter_regex, description))
            => (out.match.found /\ out.match.string = description
                /\ out.cands[Len(out.cands)] = StrItem(description))

C4_Witness ==
  /\ Returned("search_in_pr") /\ call.description /\ call.reverse
  /\ Hits # {} /\ Contains(call.filter_regex, description)
  /\ out.fetched[Greatest(Hits)].comment # description
  /\ out.match.string = out.fetched[Greatest(Hits)].comment

\* C5: when the backend's fetches succeed neither operation raises;
\* search_in_pr returns None when no candidate matches (always so with zero
\* comments and description=False); get_pr_comments returns an empty sequence
\* for zero comments or when no comment matches the filter.
C5_NoMatchIsAbsence ==
  (call.op # "none" /\ FetchesSucceed)
    => /\ out.raised = "none"
       /\ (call.op = "search_in_pr" /\ Hits = {}
             /\ (call.description => ~Contains(call.filter_regex, description)))
            => out.match = NoMatch
       /\ (call.op = "search_in_pr" /\ out.fetched = <<>> /\ ~call.description)
            => out.match = NoMatch
       /\ (call.op = "get_pr_comments" /\ out.fetched = <<>>) => out.list.val = <<>>
       /\ (call.op = "get_pr_comments" /\ call.filter_regex # None /\ Hits = {})
            => out.list.val = <<>>

C5_Witness ==
  /\ Returned("search_in_pr") /\ call.description
  /\ Len(out.fetched) >= 2 /\ Hits = {}
  /\ ~Contains(call.filter_regex, description)
  /\ out.match = NoMatch

\* C6: get_pr_comments never mutates the fetched data: the list object that
\* _get_all_pr_comments returned holds the same elements in the same order
\* after the call as when it was returned.
C6_FetchedNotMutated ==
  Returned("get_pr_comments") => out.obj = out.fetched

\* the list a finished call returned, as it reads in the next state
ReadNext(l) == IF l.alias THEN kept' ELSE l.val

\* C7: reversing the result of get_pr_comments(reverse=True) gives the result
\* of get_pr_comments(reverse=False), whichever call is made first.
C7_ReverseInvolution ==
  [][(/\ Returned("get_pr_comments") /\ call.filter_regex = None
      /\ call'.op = "get_pr_comments" /\ call'.filter_regex = None
      /\ out'.raised = "none"
      /\ call.reverse # call'.reverse)
     => IF call.reverse
        THEN Reversed(out.list.val) = out'.list.val
        ELSE Reversed(out'.list.val) = ReadNext(out.list)]_vars

\* C8: with unchanged forge-side data a call's result depends only on its
\* arguments: repeating the call returns an equal result.
C8_RepeatableCalls ==
  [][(/\ call.op # "none" /\ out.raised = "none"
      /\ call' = call /\ out'.raised = "none")
     => (out'.list.val = out.list.val /\ out'.match = out.match)]_vars

\* C9: every call invokes _get_all_pr_comments exactly once and get_pr_info at
\* most once (get_pr_comments never); an unimplemented primitive ends the
\* call with NotImplementedError and no result.
C9_NoRetry ==
  (call.op # "none")
    => /\ out.nFetch = 1
       /\ out.nInfo <= 1
       /\ (call.op = "get_pr_comments") => out.nInfo = 0
       /\ (commentsImpl = "stub" \/ (call.op = "search_in_pr" /\ call.description
                                       /\ infoImpl = "stub"))
            => (out.raised = "NotImplementedError"
                /\ out.list = NoList /\ out.match = NoMatch)

C9_Witness ==
  /\ call.op = "search_in_pr" /\ call.description
  /\ commentsImpl = "kept" /\ infoImpl = "stub" /\ Hits # {}
  /\ out.raised = "NotImplementedError" /\ out.nFetch = 1 /\ out.nInfo = 1

\* C10: search_in_pr fetches the comments first and the description after,
\* only when description=True.  With description=False get_pr_info is never
\* invoked and the description cannot affect the result; with description=True
\* a failing get_pr_info fails the call even when a comment matches; a failing
\* _get_all_pr_comments propagates without get_pr_info being invoked; no
\* error arises from anything but the two primitives.
C10_FetchOrder ==
  (call.op = "search_in_pr")
    => /\ (~call.description) => out.nInfo = 0
       /\ (~call.description /\ commentsImpl # "stub")
            => (out.raised = "none" /\ out.cands = Scanned
                /\ out.match.found = (Hits # {}))
       /\ (call.description /\ commentsImpl # "stub" /\ infoImpl = "stub")
            => (out.raised = "NotImplementedError" /\ out.raisedBy = "get_pr_info"
                /\ out.match = NoMatch)
       /\ (commentsImpl = "stub")
            => (out.raised = "NotImplementedError"
                /\ out.raisedBy = "_get_all_pr_comments" /\ out.nInfo = 0)
       /\ (out.raised # "none")
            => \/ (out.raisedBy = "_get_all_pr_comments" /\ commentsImpl = "stub")
               \/ (out.raisedBy = "get_pr_info" /\ infoImpl = "stub")

C10_Witness ==
  /\ call.op = "search_in_pr" /\ ~call.description
  /\ infoImpl = "stub" /\ commentsImpl = "fresh"
  /\ Hits = {} /\ Len(out.fetched) >= 1
  /\ Contains(call.filter_regex, description)
  /\ out.raised = "none" /\ out.match = NoMatch
====
